---- MODULE Spec2Model ----
(***************************************************************************)
(* RepoAnalyzer-Pro: the asynchronous multi-task job orchestrator          *)
(* (src/main.py), the remote analysis client with its retry policy         *)
(* (src/api_handlers.py) and the credential lookup (src/config.py).        *)
(*                                                                         *)
(* The specifications share the module's variables:                        *)
(*   Spec      - the job registry, the lifecycle controller of a job       *)
(*               (one step per registry write), its five worker tasks and  *)
(*               the polling endpoints;                                    *)
(*   FairSpec  - Spec with weak fairness on the controller and worker      *)
(*               threads, for termination;                                 *)
(*   SpecRetry - one invocation of APIAnalyzer.analyze_with_retry, one     *)
(*               step per loop iteration and per backoff sleep;            *)
(*   SpecClone - the calls of clone_repo by the runs of two jobs, on the   *)
(*               cache directory they share.                               *)
(***************************************************************************)
EXTENDS Integers, Sequences, FiniteSets, TLC

(***************************************************************************)
(* Bounds of the model.                                                    *)
(***************************************************************************)
\* number of create-job requests made in a run whose repository cannot be
\* cloned (the jobs of such a run end at clone_repo)
MaxJobs == 2
\* number of create-job requests made in a run whose jobs may reach the analyses
MaxAnalysedJobs == 1

(***************************************************************************)
(* Program constants.                                                      *)
(***************************************************************************)
\* APIAnalyzer.__init__: self.max_retries, self.retry_delay
max_retries == 2
retry_delay == 1

\* the five analysis kinds, in the order main.py submits them
KindOrder == <<"architecture_flow", "mind_map", "code_quality", "security", "performance">>
Kinds == {KindOrder[i] : i \in 1..Len(KindOrder)}

\* identifiers uuid4 may hand out
JobIds == {"j1", "j2"}

\* Python's None, and a Python str
PyNone == [shape |-> "None"]
PyStr(s) == [shape |-> "str", text |-> s]

(***************************************************************************)
(* config.py: the credential slots read from the environment at start-up.  *)
(* A slot holds "" when its variable is unset.                             *)
(***************************************************************************)
VARIABLES GEMINI_APIS, DEFAULT_API_KEY

(***************************************************************************)
(* The environment of a run: what the remote service may do when called,   *)
(* the faults a task may end with outside analyze_with_retry, the number   *)
(* of create-job requests the clients make, and what clone_repo may do on  *)
(* the repository they name ("" stands for returning, a message for        *)
(* raising with it).                                                       *)
(***************************************************************************)
VARIABLES remote, taskFaults, requests, repos

\* a variant without the fallback to the default key
get_api_key_specific_only(analysis_type) == GEMINI_APIS[analysis_type]

\* config.get_api_key
get_api_key(analysis_type) ==
    IF GEMINI_APIS[analysis_type] # "" THEN GEMINI_APIS[analysis_type]
    ELSE IF DEFAULT_API_KEY # "" THEN DEFAULT_API_KEY
    ELSE ""

\* a variant that tests the mapping of the kinds and not the keys it holds
validate_api_keys_mapping_truthy ==
    \/ DEFAULT_API_KEY # ""
    \/ DOMAIN GEMINI_APIS # {}

\* config.validate_api_keys
validate_api_keys ==
    \/ DEFAULT_API_KEY # ""
    \/ \E k \in Kinds : GEMINI_APIS[k] # ""

\* APIAnalyzer._get_fallback_response: the fixed placeholder of a kind, whose
\* texts depend on error_type only through error_message / action_message
get_fallback_response(analysis_type, error_type) ==
    IF analysis_type \in Kinds
    THEN [shape |-> "fallback", kind |-> analysis_type,
          message |-> CASE error_type = "QUOTA_EXCEEDED" -> "quota"
                        [] error_type = "NO_API_KEY" -> "no_api_key"
                        [] OTHER -> "technical"]
    ELSE [shape |-> "error_record", message |-> "Unknown analysis type"]

(***************************************************************************)
(* Text.  A Python str is a sequence of characters, so that the substring  *)
(* tests of the retry policy are computed and not assumed.                 *)
(***************************************************************************)
UpperCase == <<"A", "B", "C", "D", "E", "F", "G", "H", "I", "J", "K", "L", "M",
               "N", "O", "P", "Q", "R", "S", "T", "U", "V", "W", "X", "Y", "Z">>
LowerCase == <<"a", "b", "c", "d", "e", "f", "g", "h", "i", "j", "k", "l", "m",
               "n", "o", "p", "q", "r", "s", "t", "u", "v", "w", "x", "y", "z">>

\* str.lower(), one character
LowerChar(c) ==
    IF \E i \in 1..26 : UpperCase[i] = c
    THEN LowerCase[CHOOSE i \in 1..26 : UpperCase[i] = c]
    ELSE c

\* str.lower()
Lower(s) == [i \in 1..Len(s) |-> LowerChar(s[i])]

\* Python's `sub in s` on two str
Contains(sub, s) ==
    \E i \in 0..(Len(s) - Len(sub)) : \A n \in 1..Len(sub) : s[i + n] = sub[n]

Txt429 == <<"4", "2", "9">>
TxtQuota == <<"q", "u", "o", "t", "a">>
TxtError == <<"e", "r", "r", "o", "r">>
\* the literals of analyze_with_retry and _call_gemini_api
MsgCouldNotParse == <<"C", "o", "u", "l", "d", " ", "n", "o", "t", " ", "p", "a", "r", "s", "e", " ",
                      "r", "e", "s", "p", "o", "n", "s", "e", " ", "a", "s", " ", "J", "S", "O", "N">>
MsgUnknownError == <<"U", "n", "k", "n", "o", "w", "n", " ", "e", "r", "r", "o", "r">>
MsgNoResponse == <<"N", "o", " ", "r", "e", "s", "p", "o", "n", "s", "e">>
\* str(e) of the TypeError / AttributeError CPython raises on a non-dict result
MsgIntNotIterable == <<"a", "r", "g", "u", "m", "e", "n", "t", " ", "o", "f", " ", "t", "y", "p", "e", " ",
                       "'", "i", "n", "t", "'", " ", "i", "s", " ", "n", "o", "t", " ",
                       "i", "t", "e", "r", "a", "b", "l", "e">>
MsgBoolNotIterable == <<"a", "r", "g", "u", "m", "e", "n", "t", " ", "o", "f", " ", "t", "y", "p", "e", " ",
                        "'", "b", "o", "o", "l", "'", " ", "i", "s", " ", "n", "o", "t", " ",
                        "i", "t", "e", "r", "a", "b", "l", "e">>
MsgListNoGet == <<"'", "l", "i", "s", "t", "'", " ", "o", "b", "j", "e", "c", "t", " ", "h", "a", "s", " ",
                  "n", "o", " ", "a", "t", "t", "r", "i", "b", "u", "t", "e", " ", "'", "g", "e", "t", "'">>
MsgStrNoGet == <<"'", "s", "t", "r", "'", " ", "o", "b", "j", "e", "c", "t", " ", "h", "a", "s", " ",
                 "n", "o", " ", "a", "t", "t", "r", "i", "b", "u", "t", "e", " ", "'", "g", "e", "t", "'">>

\* error texts the provider may produce (in an "error" member or as str(e))
MsgHttp429 == <<"H", "T", "T", "P", " ", "4", "2", "9", " ", "b", "u", "s", "y">>
MsgQuotaCap == <<"Q", "u", "o", "t", "a", " ", "e", "x", "c", "e", "e", "d", "e", "d">>
MsgQUOTA == <<"Q", "U", "O", "T", "A">>
MsgQuotaLow == <<"o", "v", "e", "r", " ", "q", "u", "o", "t", "a">>
MsgTimeout == <<"t", "i", "m", "e", "o", "u", "t">>
MsgNearMiss == <<"4", "2", " ", "9", " ", "q", "u", "o", "t", " ", "a">>
MsgHttp500 == <<"H", "T", "T", "P", " ", "5", "0", "0">>
MsgEmpty == <<>>
ProviderMessages ==
    {MsgHttp429, MsgQuotaCap, MsgQUOTA, MsgQuotaLow, MsgTimeout, MsgNearMiss, MsgHttp500, MsgEmpty}

\* a variant that forgets .lower()
IsQuotaTextCaseSensitive(s) == Contains(Txt429, s) \/ Contains(TxtQuota, s)

\* analyze_with_retry's quota test, on str(error_msg) or str(e)
IsQuotaText(s) == Contains(Txt429, s) \/ Contains(TxtQuota, Lower(s))

(***************************************************************************)
(* The remote response.  response.text is a sequence of JSON tokens and    *)
(* prose; json.loads and the brace regex are computed on it.               *)
(***************************************************************************)
Tok(t) == [t |-> t, key |-> "", v |-> <<>>]
\* an object member "key": v (v is str(value))
Member(key, v) == [t |-> "member", key |-> key, v |-> v]
\* a JSON string literal / number literal with the given characters
StrLit(v) == [t |-> "string", key |-> "", v |-> v]
NumLit(v) == [t |-> "number", key |-> "", v |-> v]

\* the Python value json.loads builds
PyValue(type, items) == [shape |-> "json", type |-> type, items |-> items]

IsScalarTok(x) == x.t \in {"string", "number", "null", "true", "false"}

ScalarValue(x) ==
    PyValue(CASE x.t = "string" -> "str"
              [] x.t = "number" -> "int"
              [] x.t = "null" -> "NoneType"
              [] OTHER -> "bool", <<x>>)

\* json.loads(text): ok is FALSE where it raises JSONDecodeError
json_loads(text) ==
    LET n == Len(text) IN
    IF n = 1 /\ IsScalarTok(text[1])
    THEN [ok |-> TRUE, value |-> ScalarValue(text[1])]
    ELSE IF n >= 2 /\ text[1].t = "{" /\ text[n].t = "}"
            /\ \A i \in 2..(n - 1) : text[i].t = "member"
    THEN [ok |-> TRUE, value |-> PyValue("dict", SubSeq(text, 2, n - 1))]
    ELSE IF n >= 2 /\ text[1].t = "[" /\ text[n].t = "]"
            /\ \A i \in 2..(n - 1) : IsScalarTok(text[i])
    THEN [ok |-> TRUE, value |-> PyValue("list", SubSeq(text, 2, n - 1))]
    ELSE [ok |-> FALSE, value |-> PyNone]

\* re.search(r'\{[\s\S]*\}', text): leftmost "{", then greedy to the last "}"
re_search_braces(text) ==
    LET opens == {i \in 1..Len(text) : text[i].t = "{"}
        closes == {j \in 1..Len(text) : text[j].t = "}"}
        starts == {i \in opens : \E j \in closes : j > i}
    IN  IF starts = {}
        THEN [found |-> FALSE, group |-> <<>>]
        ELSE LET i == CHOOSE x \in starts : \A y \in starts : x <= y
                 j == CHOOSE x \in closes : \A y \in closes : y <= x
             IN  [found |-> TRUE, group |-> SubSeq(text, i, j)]

\* what one call of model.generate_content does: raise str(e) = msg, or
\* answer with response.text = text
Raises(msg) == [raises |-> TRUE, msg |-> msg, text |-> <<>>]
Answers(text) == [raises |-> FALSE, msg |-> <<>>, text |-> text]

\* APIAnalyzer._call_gemini_api
call_gemini_api(b) ==
    IF b.raises
    THEN PyValue("dict", <<Member("error", b.msg)>>)
    ELSE LET whole == json_loads(b.text)
             m == re_search_braces(b.text)
             part == json_loads(m.group)
         IN  IF whole.ok THEN whole.value
             ELSE IF m.found /\ part.ok THEN part.value
             ELSE PyValue("dict", <<Member("error", MsgCouldNotParse),
                                    Member("raw_response", <<>>)>>)

(***************************************************************************)
(* Python's view of a parsed value.                                        *)
(***************************************************************************)
\* bool(v)
Truthy(v) ==
    CASE v.type \in {"dict", "list"} -> v.items # <<>>
      [] v.type = "str" -> v.items[1].v # <<>>
      [] v.type = "int" -> v.items[1].v # <<"0">>
      [] v.type = "bool" -> v.items[1].t = "true"
      [] OTHER -> FALSE

\* `"error" in v` raises TypeError on an int or a bool
InRaises(v) == v.type \in {"int", "bool"}

\* `"error" in v` on a dict (keys), a list (elements) or a str (substring)
HasError(v) ==
    CASE v.type = "dict" -> \E i \in 1..Len(v.items) : v.items[i].key = "error"
      [] v.type = "list" ->
            \E i \in 1..Len(v.items) : v.items[i].t = "string" /\ v.items[i].v = TxtError
      [] v.type = "str" -> Contains(TxtError, v.items[1].v)
      [] OTHER -> FALSE

\* str(v.get("error", "Unknown error")) on a dict: the last "error" member wins
DictGetError(v) ==
    LET idx == {i \in 1..Len(v.items) : v.items[i].key = "error"} IN
    IF idx = {} THEN MsgUnknownError
    ELSE v.items[CHOOSE i \in idx : \A j \in idx : j <= i].v

(***************************************************************************)
(* APIAnalyzer.analyze_with_retry: one iteration of the retry loop.        *)
(* ctl says how the iteration ends: "return" (with value), "continue"      *)
(* (to the backoff test) or "raise" (exc = str(e) leaves the function).    *)
(***************************************************************************)
Return(value) == [ctl |-> "return", value |-> value, exc |-> <<>>]
Continue == [ctl |-> "continue", value |-> PyNone, exc |-> <<>>]
Raise(msg) == [ctl |-> "raise", value |-> PyNone, exc |-> msg]

\* lines 54-60: the else branch, given error_msg
ErrorBranch(analysis_type, error_msg) ==
    IF IsQuotaText(error_msg)
    THEN Return(get_fallback_response(analysis_type, "QUOTA_EXCEEDED"))
    ELSE Continue

\* lines 47-60: the body of the try
TryBody(analysis_type, result) ==
    IF ~Truthy(result) THEN ErrorBranch(analysis_type, MsgNoResponse)
    ELSE IF InRaises(result)
    THEN Raise(IF result.type = "int" THEN MsgIntNotIterable ELSE MsgBoolNotIterable)
    ELSE IF ~HasError(result) THEN Return(result)
    ELSE IF result.type = "dict" THEN ErrorBranch(analysis_type, DictGetError(result))
    ELSE Raise(IF result.type = "list" THEN MsgListNoGet ELSE MsgStrNoGet)

\* lines 62-68: except Exception as e
ExceptHandler(analysis_type, e) ==
    IF IsQuotaText(e)
    THEN Return(get_fallback_response(analysis_type, "QUOTA_EXCEEDED"))
    ELSE Continue

\* a variant without the except clause
AttemptWithoutHandler(analysis_type, result) == TryBody(analysis_type, result)

\* lines 46-68: try ... except
Attempt(analysis_type, result) ==
    LET t == TryBody(analysis_type, result) IN
    IF t.ctl = "raise" THEN ExceptHandler(analysis_type, t.exc) ELSE t

\* a variant that runs the loop once more
LoopContinuesOnceMore(n) == n <= max_retries

\* line 45: range(self.max_retries) has another value for the loop variable
LoopContinues(n) == n < max_retries

\* a variant that sleeps after the last attempt too
BackoffDueAfterEveryAttempt(n) == n < max_retries

\* line 70
BackoffDue(n) == n < max_retries - 1

\* line 71: the argument of time.sleep
BackoffDelay(n) == retry_delay * (n + 1)

(***************************************************************************)
(* What the remote call is made to do in the model.                        *)
(***************************************************************************)
TxtOk == <<"o", "k">>
TxtAnError == <<"a", "n", " ", "e", "r", "r", "o", "r">>
TxtQuotaError == <<"q", "u", "o", "t", "a", " ", "e", "r", "r", "o", "r">>

ObjectOk == <<Tok("{"), Member("summary", TxtOk), Tok("}")>>
ObjectWithError(msg) == <<Tok("{"), Member("error", msg), Tok("}")>>

ResponseTexts ==
    {ObjectOk,
     <<Tok("{"), Tok("}")>>,
     <<Tok("["), StrLit(TxtOk), Tok("]")>>,
     <<Tok("["), StrLit(TxtError), Tok("]")>>,
     <<Tok("["), Tok("]")>>,
     <<StrLit(TxtOk)>>,
     <<StrLit(TxtAnError)>>,
     <<StrLit(TxtQuotaError)>>,
     <<StrLit(<<>>)>>,
     <<NumLit(Txt429)>>,
     <<NumLit(<<"0">>)>>,
     <<Tok("null")>>,
     <<Tok("true")>>,
     <<Tok("false")>>,
     <<Tok("prose")>>,
     <<Tok("prose")>> \o ObjectOk \o <<Tok("prose")>>,
     ObjectOk \o <<Tok("prose")>> \o ObjectOk,
     <<Tok("}"), Tok("prose"), Tok("{")>>}
    \cup {ObjectWithError(m) : m \in ProviderMessages}

Behaviours ==
    {Raises(m) : m \in ProviderMessages} \cup {Answers(t) : t \in ResponseTexts}

\* the behaviours the worker tasks of a job are run against: an answer that
\* succeeds, one that fails, a quota failure and another failure
JobBehaviours ==
    {Answers(ObjectOk), Answers(<<Tok("{"), Tok("}")>>), Raises(MsgHttp429), Raises(MsgTimeout)}

\* the faults a task may end with outside analyze_with_retry
TaskFaults == {"MemoryError"}

(***************************************************************************)
(* State.                                                                  *)
(***************************************************************************)
VARIABLES
    jobs,      \* main.jobs: job id -> job record (the in-memory job store)
    pc,        \* per job id: where its process_repo_job_multi_api run stands
    completed, \* per job id: the run's local `completed`
    exc,       \* per job id: str(e) of the exception the run's handler caught
    futures,   \* per job id, per kind: the task submitted for the kind
    reply      \* what the last endpoint call returned (none after any other step)

VARIABLES
    rpc,           \* analyze_with_retry: where the invocation stands
    analysis_type, \* its argument
    api_key,       \* its local api_key
    attempt,       \* its loop variable
    result,        \* its local result (of the last _call_gemini_api)
    calls,         \* the remote calls made so far: the key given, what the call did
    sleeps,        \* the arguments of the time.sleep calls so far
    ret            \* the value returned

VARIABLES
    cache,   \* the clone cache on disk: repository name -> state of its directory
    cpc,     \* per job id: where its call of clone_repo stands
    crepo,   \* per job id: the repository name of its repo_url
    cloned,  \* per repository name: the remote clones begun and not failed
    cret     \* per job id: the path clone_repo returned ("" before)

cfgvars == <<GEMINI_APIS, DEFAULT_API_KEY, remote, taskFaults, requests, repos>>
jobvars == <<jobs, pc, completed, exc, futures, reply>>
retryvars == <<rpc, analysis_type, api_key, attempt, result, calls, sleeps, ret>>
clonevars == <<cache, cpc, crepo, cloned, cret>>
vars == <<cfgvars, jobvars, retryvars, clonevars>>

NoReply == [op |-> "none"]
NoFuture == [st |-> "none", attempt |-> 0, raised |-> FALSE, value |-> PyNone, msg |-> ""]

\* main.py lines 113-124: the record summarize_repo stores
NewJob ==
    [status |-> "queued", progress |-> 0,
     results |-> [k \in Kinds |-> PyNone], error |-> PyNone]

JobsIdle ==
    /\ jobs = [j \in {} |-> NewJob]
    /\ pc = [j \in JobIds |-> "none"]
    /\ completed = [j \in JobIds |-> 0]
    /\ exc = [j \in JobIds |-> ""]
    /\ futures = [j \in JobIds |-> [k \in Kinds |-> NoFuture]]
    /\ reply = NoReply

RetryIdle ==
    /\ rpc = "idle"
    /\ analysis_type = "architecture_flow"
    /\ api_key = ""
    /\ attempt = 0
    /\ result = PyNone
    /\ calls = <<>>
    /\ sleeps = <<>>
    /\ ret = PyNone

\* the repository names of the repo_url arguments
RepoNames == {"r1", "r2"}

\* os.path.join(cache_dir, repo_name)
RepoPath(repo_name) == <<"cache", repo_name>>

CloneIdle ==
    /\ cache = [r \in RepoNames |-> "absent"]
    /\ cpc = [j \in JobIds |-> "idle"]
    /\ crepo = [j \in JobIds |-> "r1"]
    /\ cloned = [r \in RepoNames |-> 0]
    /\ cret = [j \in JobIds |-> ""]

(***************************************************************************)
(* The request facade (main.py).                                           *)
(***************************************************************************)
HTTPException(op, code, detail) == [op |-> op, code |-> code, detail |-> detail]

\* a variant whose identifier may be one the registry already holds
summarize_repo_reuses_id ==
    /\ Cardinality(DOMAIN jobs) < requests
    /\ IF ~validate_api_keys
       THEN /\ reply' = HTTPException("summarize_repo", 400, "API keys not configured")
            /\ UNCHANGED <<jobs, pc>>
       ELSE \E job_id \in JobIds :
                /\ jobs' = [j \in DOMAIN jobs \cup {job_id} |->
                               IF j = job_id THEN NewJob ELSE jobs[j]]
                /\ pc' = [pc EXCEPT ![job_id] = "queued"]
                /\ reply' = [op |-> "summarize_repo", code |-> 200,
                             job_id |-> job_id, status |-> "queued"]
    /\ UNCHANGED <<completed, exc, futures>>
    /\ UNCHANGED <<cfgvars, retryvars, clonevars>>

\* POST /summarize-repo, while the clients have requests left to make.  uuid4
\* yields an identifier no job has.  The background run is scheduled
\* (pc "queued") and starts after the response.
summarize_repo ==
    /\ Cardinality(DOMAIN jobs) < requests
    /\ IF ~validate_api_keys
       THEN /\ reply' = HTTPException("summarize_repo", 400, "API keys not configured")
            /\ UNCHANGED <<jobs, pc>>
       ELSE \E job_id \in JobIds \ DOMAIN jobs :
                /\ jobs' = jobs @@ (job_id :> NewJob)
                /\ pc' = [pc EXCEPT ![job_id] = "queued"]
                /\ reply' = [op |-> "summarize_repo", code |-> 200,
                             job_id |-> job_id, status |-> "queued"]
    /\ UNCHANGED <<completed, exc, futures>>
    /\ UNCHANGED <<cfgvars, retryvars, clonevars>>

\* what GET /summary-status answers
summary_status_response(job_id) ==
    IF job_id \notin DOMAIN jobs
    THEN HTTPException("summary_status", 404, "Job not found")
    ELSE [op |-> "summary_status", code |-> 200, status |-> jobs[job_id].status,
          progress |-> jobs[job_id].progress, error |-> jobs[job_id].error]

\* GET /summary-status
summary_status(job_id) ==
    /\ reply' = summary_status_response(job_id)
    /\ UNCHANGED <<jobs, pc, completed, exc, futures>>
    /\ UNCHANGED <<cfgvars, retryvars, clonevars>>

\* a variant that answers for any job of the registry, finished or not
get_summary_any_status(job_id, kind) ==
    IF job_id \notin DOMAIN jobs
    THEN HTTPException("get_summary", 404, "Summary not available")
    ELSE [op |-> "get_summary", code |-> 200, whole |-> TRUE,
          summary |-> jobs[job_id].results]

\* a variant that answers an unknown kind with the whole mapping
get_summary_unknown_kind_whole(job_id, kind) ==
    IF job_id \notin DOMAIN jobs \/ jobs[job_id].status # "done"
    THEN HTTPException("get_summary", 404, "Summary not available")
    ELSE IF kind # "" /\ kind \in DOMAIN jobs[job_id].results
    THEN [op |-> "get_summary", code |-> 200, whole |-> FALSE,
          summary |-> jobs[job_id].results[kind]]
    ELSE [op |-> "get_summary", code |-> 200, whole |-> TRUE,
          summary |-> jobs[job_id].results]

\* what GET /get-summary answers; kind "" is an omitted analysis_type
get_summary_response(job_id, kind) ==
    IF job_id \notin DOMAIN jobs \/ jobs[job_id].status # "done"
    THEN HTTPException("get_summary", 404, "Summary not available")
    ELSE IF kind # ""
    THEN IF kind \in DOMAIN jobs[job_id].results
         THEN [op |-> "get_summary", code |-> 200, whole |-> FALSE,
               summary |-> jobs[job_id].results[kind]]
         ELSE HTTPException("get_summary", 404, "Analysis type not found")
    ELSE [op |-> "get_summary", code |-> 200, whole |-> TRUE,
          summary |-> jobs[job_id].results]

\* the analysis_type arguments tried: omitted, two kinds, an unknown one
QueryKinds == {"", "mind_map", "performance", "bogus"}

\* GET /get-summary
get_summary(job_id, kind) ==
    /\ reply' = get_summary_response(job_id, kind)
    /\ UNCHANGED <<jobs, pc, completed, exc, futures>>
    /\ UNCHANGED <<cfgvars, retryvars, clonevars>>

(***************************************************************************)
(* process_repo_job_multi_api(job_id, repo_url): one action per registry   *)
(* write and per blocking call.  pc names the line about to run.           *)
(***************************************************************************)
\* the messages clone_repo and parse_repo may raise with
CloneErrors == {"clone failed"}
ParseErrors == {"parse failed"}
\* what clone_repo may do: return, or raise with one of the messages
CloneOutcomes == {""} \cup CloneErrors

\* a variant in which the jobs share one record
WriteFieldOfSharedRecord(job_id, field, value, next) ==
    /\ jobs' = [j \in DOMAIN jobs |-> [jobs[j] EXCEPT ![field] = value]]
    /\ pc' = [pc EXCEPT ![job_id] = next]
    /\ reply' = NoReply
    /\ UNCHANGED <<completed, exc, futures>>
    /\ UNCHANGED <<cfgvars, retryvars, clonevars>>

\* a step of the run of job_id that writes one field of its record
WriteField(job_id, field, value, next) ==
    /\ jobs' = [jobs EXCEPT ![job_id][field] = value]
    /\ pc' = [pc EXCEPT ![job_id] = next]
    /\ reply' = NoReply
    /\ UNCHANGED <<completed, exc, futures>>
    /\ UNCHANGED <<cfgvars, retryvars, clonevars>>

\* a blocking call of the run that either returns or raises msg
CallStep(job_id, raised, msg, next) ==
    /\ pc' = [pc EXCEPT ![job_id] = IF raised THEN "L207" ELSE next]
    /\ exc' = [exc EXCEPT ![job_id] = IF raised THEN msg ELSE @]
    /\ reply' = NoReply
    /\ UNCHANGED <<jobs, completed, futures>>
    /\ UNCHANGED <<cfgvars, retryvars, clonevars>>

\* line 153
SetCloning(job_id) ==
    pc[job_id] = "queued" /\ WriteField(job_id, "status", "cloning", "L154")

\* line 154
SetProgress10(job_id) ==
    pc[job_id] = "L154" /\ WriteField(job_id, "progress", 10, "L157")

\* a variant that notes the failure of clone_repo and goes on
CloneRepoSwallowsFailure(job_id) ==
    /\ pc[job_id] = "L157"
    /\ \E m \in repos :
             /\ pc' = [pc EXCEPT ![job_id] = "L161"]
             /\ exc' = [exc EXCEPT ![job_id] = m]
             /\ reply' = NoReply
             /\ UNCHANGED <<jobs, completed, futures>>
             /\ UNCHANGED <<cfgvars, retryvars, clonevars>>

\* line 157: clone_repo(repo_url)
CloneRepo(job_id) ==
    /\ pc[job_id] = "L157"
    /\ \E m \in repos : CallStep(job_id, m # "", m, "L161")

\* a variant that fills the slots with a "pending" record on the way
SetParsingPrefillsSlots(job_id) ==
    /\ pc[job_id] = "L161"
    /\ jobs' = [jobs EXCEPT ![job_id].status = "parsing",
                            ![job_id].results = [k \in Kinds |->
                                [shape |-> "error_record", message |-> "pending"]]]
    /\ pc' = [pc EXCEPT ![job_id] = "L162"]
    /\ reply' = NoReply
    /\ UNCHANGED <<completed, exc, futures>>
    /\ UNCHANGED <<cfgvars, retryvars, clonevars>>

\* line 161
SetParsing(job_id) ==
    pc[job_id] = "L161" /\ WriteField(job_id, "status", "parsing", "L162")

\* line 162
SetProgress20(job_id) ==
    pc[job_id] = "L162" /\ WriteField(job_id, "progress", 20, "L163")

\* line 163: parse_repo(repo_path)
ParseRepo(job_id) ==
    /\ pc[job_id] = "L163"
    /\ \/ CallStep(job_id, FALSE, "", "L167")
       \/ \E m \in ParseErrors : CallStep(job_id, TRUE, m, "L167")

\* line 167
SetAnalyzing(job_id) ==
    pc[job_id] = "L167" /\ WriteField(job_id, "status", "analyzing", "L168")

\* line 168
SetProgress30(job_id) ==
    pc[job_id] = "L168" /\ WriteField(job_id, "progress", 30, "L175")

\* lines 173-180: executor.submit, one kind after the other; a submitted task
\* starts running on a pool thread (max_workers = 5).  Line 182 follows.
Submit(job_id) ==
    /\ pc[job_id] = "L175"
    /\ LET n == Cardinality({k \in Kinds : futures[job_id][k].st # "none"})
           kind == KindOrder[n + 1]
       IN  /\ futures' = [futures EXCEPT ![job_id][kind].st = "running"]
           /\ pc' = [pc EXCEPT ![job_id] = IF n + 1 = Len(KindOrder) THEN "L183" ELSE "L175"]
           /\ completed' = [completed EXCEPT ![job_id] = 0]
    /\ reply' = NoReply
    /\ UNCHANGED <<jobs, exc>>
    /\ UNCHANGED <<cfgvars, retryvars, clonevars>>

\* a finished task: its future holds a value or an exception
\* (the task's loop variable ends with the task)
Finished(f, value) == [f EXCEPT !.st = "done", !.attempt = 0, !.value = value]
Faulted(f, msg) == [f EXCEPT !.st = "done", !.attempt = 0, !.raised = TRUE, !.msg = msg]

\* what the future of a running run_<kind>_analysis task becomes when the
\* task makes its next step of api_analyzer.analyze_with_retry(kind, prompt)
\* against behaviour b of the remote call (the backoff sleep is part of the step)
TaskAfter(f, kind, b) ==
    IF get_api_key(kind) = ""
    THEN Finished(f, get_fallback_response(kind, "NO_API_KEY"))
    ELSE LET o == Attempt(kind, call_gemini_api(b)) IN
         IF o.ctl = "return" THEN Finished(f, o.value)
         ELSE IF o.ctl = "raise" THEN Faulted(f, "TypeError")
         ELSE IF BackoffDue(f.attempt) THEN [f EXCEPT !.attempt = @ + 1]
         ELSE Finished(f, get_fallback_response(kind, "API_FAILED"))

\* a variant in which the task stores its result in the registry itself
TaskStepWritesSlot(job_id, kind) ==
    /\ futures[job_id][kind].st = "running"
    /\ \E b \in remote :
          LET f == TaskAfter(futures[job_id][kind], kind, b) IN
          /\ futures' = [futures EXCEPT ![job_id][kind] = f]
          /\ jobs' = IF f.st = "done" /\ ~f.raised
                     THEN [jobs EXCEPT ![job_id].results[kind] = f.value]
                     ELSE jobs
    /\ reply' = NoReply
    /\ UNCHANGED <<pc, completed, exc>>
    /\ UNCHANGED <<cfgvars, retryvars, clonevars>>

\* a pool thread runs one step of the task of a kind
TaskStep(job_id, kind) ==
    /\ futures[job_id][kind].st = "running"
    /\ \E b \in remote :
          futures' = [futures EXCEPT ![job_id][kind] = TaskAfter(@, kind, b)]
    /\ reply' = NoReply
    /\ UNCHANGED <<jobs, pc, completed, exc>>
    /\ UNCHANGED <<cfgvars, retryvars, clonevars>>

\* a task raises: its future holds the exception
TaskFault(job_id, kind) ==
    /\ futures[job_id][kind].st = "running"
    /\ \E m \in taskFaults :
          futures' = [futures EXCEPT ![job_id][kind] = Faulted(@, m)]
    /\ reply' = NoReply
    /\ UNCHANGED <<jobs, pc, completed, exc>>
    /\ UNCHANGED <<cfgvars, retryvars, clonevars>>

\* line 195: the record stored for a task that raised
AnalysisFailed(msg) == [shape |-> "error_record", message |-> msg]

\* a variant that stores nothing for a task that raised
SlotValueDropsFault(f) == IF f.raised THEN PyNone ELSE f.value

\* lines 186-187 / 195: what is stored in the slot of a finished future
SlotValue(f) == IF f.raised THEN AnalysisFailed(f.msg) ELSE f.value

\* a variant without the inner try: the exception of a task reaches the
\* handler of the run
CollectNoIsolation(job_id) ==
    /\ pc[job_id] = "L183"
    /\ \E kind \in Kinds :
          /\ futures[job_id][kind].st = "done"
          /\ futures' = [futures EXCEPT ![job_id][kind].st = "yielded"]
          /\ IF futures[job_id][kind].raised
             THEN /\ pc' = [pc EXCEPT ![job_id] = "L207"]
                  /\ exc' = [exc EXCEPT ![job_id] = futures[job_id][kind].msg]
                  /\ jobs' = jobs
             ELSE /\ pc' = [pc EXCEPT ![job_id] = "L188"]
                  /\ exc' = exc
                  /\ jobs' = [jobs EXCEPT ![job_id].results[kind] = futures[job_id][kind].value]
    /\ reply' = NoReply
    /\ UNCHANGED completed
    /\ UNCHANGED <<cfgvars, retryvars, clonevars>>

\* a variant that files a result under the kind of its rank of completion
CollectByCompletionOrder(job_id) ==
    /\ pc[job_id] = "L183"
    /\ \E kind \in Kinds :
          /\ futures[job_id][kind].st = "done"
          /\ jobs' = [jobs EXCEPT ![job_id].results[KindOrder[completed[job_id] + 1]] =
                                      SlotValue(futures[job_id][kind])]
          /\ futures' = [futures EXCEPT ![job_id][kind].st = "yielded"]
    /\ pc' = [pc EXCEPT ![job_id] = "L188"]
    /\ reply' = NoReply
    /\ UNCHANGED <<completed, exc>>
    /\ UNCHANGED <<cfgvars, retryvars, clonevars>>

\* lines 183-187, 193-195: as_completed yields a finished future that it has
\* not yielded yet; future.result() returns or raises; the slot is written
Collect(job_id) ==
    /\ pc[job_id] = "L183"
    /\ \E kind \in Kinds :
          /\ futures[job_id][kind].st = "done"
          /\ jobs' = [jobs EXCEPT ![job_id].results[kind] = SlotValue(futures[job_id][kind])]
          /\ futures' = [futures EXCEPT ![job_id][kind].st = "yielded"]
    /\ pc' = [pc EXCEPT ![job_id] = "L188"]
    /\ reply' = NoReply
    /\ UNCHANGED <<completed, exc>>
    /\ UNCHANGED <<cfgvars, retryvars, clonevars>>

\* a variant that forgets the 30 already reached
ProgressWithoutBase(n) == n * 14

\* a variant with a step of 13, which leaves the last 5 to line 202
ProgressAfterStep13(n) == 30 + (n * 13)

\* a variant with a step of 15
ProgressAfterStep15(n) == 30 + (n * 15)

\* line 189 / 197
ProgressAfter(n) == 30 + (n * 14)

\* a variant that waits for one completion more than there are tasks
AwaitsOneMore(job_id) == completed[job_id] > Cardinality(Kinds)

\* as_completed is exhausted when every future has been yielded
AllYielded(job_id) == \A k \in Kinds : futures[job_id][k].st = "yielded"

\* lines 188-190 / 196-198
CountAndSetProgress(job_id) ==
    /\ pc[job_id] = "L188"
    /\ completed' = [completed EXCEPT ![job_id] = @ + 1]
    /\ jobs' = [jobs EXCEPT ![job_id].progress = ProgressAfter(completed'[job_id])]
    /\ pc' = [pc EXCEPT ![job_id] = IF AllYielded(job_id) THEN "L201" ELSE "L183"]
    /\ reply' = NoReply
    /\ UNCHANGED <<exc, futures>>
    /\ UNCHANGED <<cfgvars, retryvars, clonevars>>

\* line 201
SetDone(job_id) ==
    pc[job_id] = "L201" /\ WriteField(job_id, "status", "done", "L202")

\* a variant in which the statement after the status write raises
SetProgress100Raises(job_id) ==
    /\ pc[job_id] = "L202"
    /\ CallStep(job_id, TRUE, "late failure", "end")

\* line 202
SetProgress100(job_id) ==
    pc[job_id] = "L202" /\ WriteField(job_id, "progress", 100, "end")

\* line 207
SetError(job_id) ==
    pc[job_id] = "L207" /\ WriteField(job_id, "status", "error", "L208")

\* line 208
SetErrorText(job_id) ==
    pc[job_id] = "L208" /\ WriteField(job_id, "error", PyStr(exc[job_id]), "end")

\* the run of one job: the thread executing process_repo_job_multi_api
Controller(job_id) ==
    \/ SetCloning(job_id) \/ SetProgress10(job_id) \/ CloneRepo(job_id)
    \/ SetParsing(job_id) \/ SetProgress20(job_id) \/ ParseRepo(job_id)
    \/ SetAnalyzing(job_id) \/ SetProgress30(job_id) \/ Submit(job_id)
    \/ Collect(job_id) \/ CountAndSetProgress(job_id)
    \/ SetDone(job_id) \/ SetProgress100(job_id)
    \/ SetError(job_id) \/ SetErrorText(job_id)

\* the pool thread of one task
Worker(job_id, kind) == TaskStep(job_id, kind) \/ TaskFault(job_id, kind)

KeysOf(specific, default) ==
    <<[k \in Kinds |-> IF k \in specific THEN "key_specific" ELSE ""], default>>

\* the runs of the job machine: no credential at all; the default key alone
\* with a remote service that always answers well; the keys of two kinds
\* alone with a remote service that may fail in every way and faulting tasks;
\* the default key alone with a repository that cannot be cloned
Scenarios ==
    {[keys |-> KeysOf({}, ""), remote |-> JobBehaviours, faults |-> TaskFaults,
      requests |-> MaxJobs, repos |-> CloneOutcomes],
     [keys |-> KeysOf({}, "key_default"), remote |-> {Answers(ObjectOk)}, faults |-> {},
      requests |-> MaxAnalysedJobs, repos |-> CloneOutcomes],
     [keys |-> KeysOf({"mind_map", "security"}, ""), remote |-> JobBehaviours,
      faults |-> TaskFaults, requests |-> MaxAnalysedJobs, repos |-> CloneOutcomes],
     [keys |-> KeysOf({}, "key_default"), remote |-> JobBehaviours, faults |-> TaskFaults,
      requests |-> MaxJobs, repos |-> CloneErrors]}

Init ==
    /\ \E s \in Scenarios :
          /\ GEMINI_APIS = s.keys[1]
          /\ DEFAULT_API_KEY = s.keys[2]
          /\ remote = s.remote
          /\ taskFaults = s.faults
          /\ requests = s.requests
          /\ repos = s.repos
    /\ JobsIdle
    /\ RetryIdle
    /\ CloneIdle

Next ==
    \/ summarize_repo
    \/ \E j \in JobIds : summary_status(j)
    \/ \E j \in JobIds, q \in QueryKinds : get_summary(j, q)
    \/ \E j \in JobIds : Controller(j)
    \/ \E j \in JobIds, k \in Kinds : Worker(j, k)

Spec == Init /\ [][Next]_vars

(***************************************************************************)
(* One invocation of APIAnalyzer.analyze_with_retry(analysis_type, prompt) *)
(* step by step.                                                           *)
(***************************************************************************)
\* lines 40-43
RetryLookup ==
    /\ rpc = "start"
    /\ api_key' = get_api_key(analysis_type)
    /\ IF api_key' = ""
       THEN /\ ret' = get_fallback_response(analysis_type, "NO_API_KEY")
            /\ rpc' = "returned"
       ELSE /\ ret' = ret
            /\ rpc' = "loop"
    /\ UNCHANGED <<analysis_type, attempt, result, calls, sleeps>>
    /\ UNCHANGED <<cfgvars, jobvars, clonevars>>

\* where the invocation stands after an iteration that ended as o
AfterAttempt(o) ==
    CASE o.ctl = "return" -> "returned"
      [] o.ctl = "raise" -> "raised"
      [] OTHER -> IF BackoffDue(attempt) THEN "sleep" ELSE "loop"

\* lines 46-70: one iteration, the remote call behaving as b
RetryAttempt ==
    /\ rpc = "loop"
    /\ LoopContinues(attempt)
    /\ \E b \in remote :
          LET r == call_gemini_api(b)
              o == Attempt(analysis_type, r)
          IN  /\ result' = r
              /\ calls' = Append(calls, [key |-> api_key, did |-> b])
              /\ rpc' = AfterAttempt(o)
              /\ ret' = IF o.ctl = "return" THEN o.value ELSE ret
              /\ attempt' = IF AfterAttempt(o) = "loop" THEN attempt + 1 ELSE attempt
    /\ UNCHANGED <<analysis_type, api_key, sleeps>>
    /\ UNCHANGED <<cfgvars, jobvars, clonevars>>

\* line 71
RetrySleep ==
    /\ rpc = "sleep"
    /\ sleeps' = Append(sleeps, BackoffDelay(attempt))
    /\ attempt' = attempt + 1
    /\ rpc' = "loop"
    /\ UNCHANGED <<analysis_type, api_key, result, calls, ret>>
    /\ UNCHANGED <<cfgvars, jobvars, clonevars>>

\* line 74: the loop is exhausted
RetryExhausted ==
    /\ rpc = "loop"
    /\ ~LoopContinues(attempt)
    /\ ret' = get_fallback_response(analysis_type, "API_FAILED")
    /\ rpc' = "returned"
    /\ UNCHANGED <<analysis_type, api_key, attempt, result, calls, sleeps>>
    /\ UNCHANGED <<cfgvars, jobvars, clonevars>>

\* the credential settings of an invocation: the kinds with a key of their own
\* are none, one, all but that one, or all; the default key is set or not
RetryKeyConfigs ==
    {KeysOf(sp, d) : sp \in {{}, {"security"}, Kinds \ {"security"}, Kinds},
                     d \in {"", "key_default"}}

\* an invocation for any kind, under these credential settings, against a
\* remote service that may do anything of Behaviours
InitRetry ==
    /\ \E c \in RetryKeyConfigs : GEMINI_APIS = c[1] /\ DEFAULT_API_KEY = c[2]
    /\ remote = Behaviours
    /\ taskFaults = {}
    /\ requests = 0
    /\ repos = {}
    /\ JobsIdle
    /\ rpc = "start"
    /\ analysis_type \in Kinds
    /\ api_key = ""
    /\ attempt = 0
    /\ result = PyNone
    /\ calls = <<>>
    /\ sleeps = <<>>
    /\ ret = PyNone
    /\ CloneIdle

NextRetry == RetryLookup \/ RetryAttempt \/ RetrySleep \/ RetryExhausted

SpecRetry == InitRetry /\ [][NextRetry]_vars

(***************************************************************************)
(* clone_repo(repo_url) (repo_cloner.py) as the runs of two jobs call it    *)
(* at line 157 of main.py, step by step, on the cache directory they       *)
(* share.  A directory is "absent", "partial" (it exists while a clone     *)
(* into it is under way) or "complete".  A run whose call has returned is  *)
(* at "parsing": lines 161-163, parse_repo(repo_path).                     *)
(***************************************************************************)
\* the other runs that are inside Repo.clone_from for the same directory
OtherCloners(job_id) ==
    {j \in JobIds \ {job_id} : cpc[j] = "cloning" /\ crepo[j] = crepo[job_id]}

\* lines 9-10: if os.path.exists(repo_path): return repo_path
TestExists(job_id) ==
    /\ cpc[job_id] = "L9"
    /\ IF cache[crepo[job_id]] # "absent"
       THEN /\ cpc' = [cpc EXCEPT ![job_id] = "parsing"]
            /\ cret' = [cret EXCEPT ![job_id] = RepoPath(crepo[job_id])]
       ELSE /\ cpc' = [cpc EXCEPT ![job_id] = "L11"]
            /\ cret' = cret
    /\ UNCHANGED <<cache, crepo, cloned>>
    /\ UNCHANGED <<cfgvars, jobvars, retryvars>>

\* git begins the clone: the directory is created and the transfer starts
CloneBegins(job_id) ==
    /\ cache' = [cache EXCEPT ![crepo[job_id]] = "partial"]
    /\ cloned' = [cloned EXCEPT ![crepo[job_id]] = @ + 1]
    /\ cpc' = [cpc EXCEPT ![job_id] = "cloning"]
    /\ UNCHANGED <<crepo, cret>>

\* git refuses a destination that exists and is not empty: GitCommandError
CloneRefused(job_id) ==
    /\ cpc' = [cpc EXCEPT ![job_id] = "failed"]
    /\ UNCHANGED <<cache, crepo, cloned, cret>>

\* line 11: Repo.clone_from(repo_url, repo_path) is entered.  A directory
\* that another clone has just created may still be empty, or not.
CloneStart(job_id) ==
    /\ cpc[job_id] = "L11"
    /\ CASE cache[crepo[job_id]] = "absent" -> CloneBegins(job_id)
         [] cache[crepo[job_id]] = "partial" -> CloneBegins(job_id) \/ CloneRefused(job_id)
         [] OTHER -> CloneRefused(job_id)
    /\ UNCHANGED <<cfgvars, jobvars, retryvars>>

\* lines 11-12: Repo.clone_from returns, and clone_repo returns repo_path
CloneReturns(job_id) ==
    /\ cpc[job_id] = "cloning"
    /\ cache' = [cache EXCEPT ![crepo[job_id]] = "complete"]
    /\ cpc' = [cpc EXCEPT ![job_id] = "parsing"]
    /\ cret' = [cret EXCEPT ![job_id] = RepoPath(crepo[job_id])]
    /\ UNCHANGED <<crepo, cloned>>
    /\ UNCHANGED <<cfgvars, jobvars, retryvars>>

\* line 11: Repo.clone_from raises (the transfer failed); git removes the
\* directory it was filling, unless another clone is filling it too
CloneRaises(job_id) ==
    /\ cpc[job_id] = "cloning"
    /\ cache' = [cache EXCEPT ![crepo[job_id]] =
                    IF OtherCloners(job_id) # {} THEN "partial"
                    ELSE IF @ = "complete" THEN "complete" ELSE "absent"]
    /\ cloned' = [cloned EXCEPT ![crepo[job_id]] = @ - 1]
    /\ cpc' = [cpc EXCEPT ![job_id] = "failed"]
    /\ UNCHANGED <<crepo, cret>>
    /\ UNCHANGED <<cfgvars, jobvars, retryvars>>

\* two runs reach line 157, each with a repo_url of one of the names
InitClone ==
    /\ GEMINI_APIS = KeysOf({}, "key_default")[1]
    /\ DEFAULT_API_KEY = "key_default"
    /\ remote = {}
    /\ taskFaults = {}
    /\ requests = 0
    /\ repos = {}
    /\ JobsIdle
    /\ RetryIdle
    /\ cache \in [RepoNames -> {"absent", "complete"}]
    /\ cpc = [j \in JobIds |-> "L9"]
    /\ crepo \in [JobIds -> RepoNames]
    /\ cloned = [r \in RepoNames |-> IF cache[r] = "complete" THEN 1 ELSE 0]
    /\ cret = [j \in JobIds |-> ""]

NextClone ==
    \E j \in JobIds :
        TestExists(j) \/ CloneStart(j) \/ CloneReturns(j) \/ CloneRaises(j)

SpecClone == InitClone /\ [][NextClone]_vars

(***************************************************************************)
(* Fairness.  The run of a job and each of its tasks execute on threads of *)
(* their own, and clone_repo, parse_repo and the remote call return or     *)
(* raise: while some thread can step, some thread does.  (Each thread      *)
(* being scheduled implies it.)  The polling endpoints write nothing and   *)
(* are left out of the fair specification.                                 *)
(***************************************************************************)
Threads ==
    \/ \E j \in JobIds : Controller(j)
    \/ \E j \in JobIds, k \in Kinds : Worker(j, k)

NextRun == summarize_repo \/ Threads

FairSpec == Init /\ [][NextRun]_vars /\ WF_vars(Threads)

(***************************************************************************)
(* Properties.                                                             *)
(***************************************************************************)
Terminal == {"done", "error"}
SlotShapes(j) == {jobs[j].results[k].shape : k \in Kinds}

\* C1: whenever a job's status is done, none of its five result slots is
\* absent, whatever the five tasks produced and in whatever order.
C1_DoneHasAllSlots ==
    \A j \in DOMAIN jobs :
        jobs[j].status = "done" => \A k \in Kinds : jobs[j].results[k] # PyNone

\* a done job holding a success payload, a fallback and the record of a fault
C1_Witness ==
    \E j \in DOMAIN jobs :
        /\ jobs[j].status = "done"
        /\ SlotShapes(j) = {"json", "fallback", "error_record"}

\* C2: no step lowers a job's progress, and no step changes the progress of
\* a job whose status is error after the step.
C2_ProgressNeverDecreases ==
    [][\A j \in DOMAIN jobs :
          /\ jobs'[j].progress >= jobs[j].progress
          /\ jobs'[j].status = "error" => jobs'[j].progress = jobs[j].progress]_vars

\* a job failed in parse_repo that kept the progress it had
C2_Witness ==
    \E j \in DOMAIN jobs :
        jobs[j].status = "error" /\ jobs[j].progress = 20 /\ pc[j] = "end"

StatusEdges ==
    {<<"queued", "cloning">>, <<"cloning", "parsing">>, <<"parsing", "analyzing">>,
     <<"analyzing", "done">>, <<"cloning", "error">>, <<"parsing", "error">>,
     <<"analyzing", "error">>}

\* C3: a step changes a job's status only along an edge of the transition
\* table; no step changes a status that is done or error.
C3_StatusFollowsEdges ==
    [][\A j \in DOMAIN jobs :
          \/ jobs'[j].status = jobs[j].status
          \/ <<jobs[j].status, jobs'[j].status>> \in StatusEdges]_vars

\* a run that went from queued to cloning to error and has ended
C3_Witness ==
    \E j \in DOMAIN jobs :
        /\ pc[j] = "end"
        /\ jobs[j].status = "error"
        /\ jobs[j].error = PyStr("clone failed")

\* a get-summary answer that carries no absent slot
NoAbsentSlot(r) ==
    IF r.whole THEN \A k \in Kinds : r.summary[k] # PyNone ELSE r.summary # PyNone

\* C4: every get-summary call on an unknown job or on a job that is not done
\* is answered 404, and every answer that carries results carries no absent
\* slot.
C4_NoPartialResults ==
    [][\A j \in JobIds, q \in QueryKinds :
          get_summary(j, q) =>
              /\ (j \notin DOMAIN jobs \/ jobs[j].status # "done") => reply'.code = 404
              /\ reply'.code = 200 => NoAbsentSlot(reply')]_vars

\* a get-summary call refused while the job is analyzing and already holds
\* some results
C4_Witness ==
    /\ reply.op = "get_summary"
    /\ reply.code = 404
    /\ \E j \in DOMAIN jobs :
          /\ jobs[j].status = "analyzing"
          /\ \E k \in Kinds : jobs[j].results[k] # PyNone

\* C5: every job whose run has been scheduled eventually has status done or
\* error.
C5_JobTerminates ==
    \A j \in JobIds :
        (pc[j] = "queued") ~> (j \in DOMAIN jobs /\ jobs[j].status \in Terminal)

\* a run that ended after a task used both its attempts
C5_Witness ==
    \E j \in DOMAIN jobs :
        /\ pc[j] = "end"
        /\ jobs[j].status = "done"
        /\ \E k \in Kinds :
              jobs[j].results[k] = [shape |-> "fallback", kind |-> k, message |-> "technical"]

\* the run is past a successful parse_repo and has not ended
ParsedOk(j) == pc[j] \in {"L167", "L168", "L175", "L183", "L188", "L201", "L202"}

\* C6: once clone_repo and parse_repo have returned, the job's status is
\* never error, the job eventually is done, and when it is done every slot
\* holds what the task of its own kind produced.
C6_AnalysisFailuresIsolated ==
    /\ [][\A j \in DOMAIN jobs :
            ParsedOk(j) => \/ ParsedOk(j)'
                           \/ pc'[j] = "end" /\ jobs'[j].status = "done"]_vars
    /\ [](\A j \in DOMAIN jobs :
            /\ ParsedOk(j) => jobs[j].status # "error"
            /\ jobs[j].status = "done" =>
                  \A k \in Kinds :
                      /\ futures[j][k].st = "yielded"
                      /\ jobs[j].results[k] =
                            IF futures[j][k].raised
                            THEN [shape |-> "error_record", message |-> futures[j][k].msg]
                            ELSE futures[j][k].value)
    /\ \A j \in JobIds :
          (pc[j] = "L167") ~> (j \in DOMAIN jobs /\ jobs[j].status = "done")

\* a done job one of whose tasks raised while the others returned
C6_Witness ==
    \E j \in DOMAIN jobs :
        /\ jobs[j].status = "done"
        /\ Cardinality({k \in Kinds : futures[j][k].raised}) = 1
        /\ Cardinality({k \in Kinds : jobs[j].results[k].shape = "error_record"}) = 1

(***************************************************************************)
(* Properties of analyze_with_retry (SpecRetry).                           *)
(***************************************************************************)
Fallback(kind, message) == [shape |-> "fallback", kind |-> kind, message |-> message]

\* C7: analyze_with_retry never lets an exception out, and what it returns
\* is a value: a placeholder of its kind or a parsed response.
C7_NeverRaises ==
    /\ rpc # "raised"
    /\ rpc = "returned" =>
          \/ ret \in {Fallback(analysis_type, m) : m \in {"no_api_key", "quota", "technical"}}
          \/ ret.shape = "json"

\* an invocation that returned after the remote call answered a number,
\* on which the test of the result raises TypeError
C7_Witness ==
    /\ rpc = "returned"
    /\ Len(calls) = max_retries
    /\ \A i \in 1..Len(calls) : calls[i].did = Answers(<<NumLit(Txt429)>>)

\* C8: with neither the key of the kind nor the default key set, the
\* invocation returns the NO_API_KEY placeholder of the kind and calls the
\* remote service never; with the default key alone, every call is given the
\* default key and the invocation does not return before it has called.
C8_CredentialLookup ==
    rpc # "start" =>
        /\ (GEMINI_APIS[analysis_type] = "" /\ DEFAULT_API_KEY = "") =>
              /\ rpc = "returned"
              /\ ret = Fallback(analysis_type, "no_api_key")
              /\ calls = <<>>
        /\ (GEMINI_APIS[analysis_type] = "" /\ DEFAULT_API_KEY # "") =>
              /\ rpc \in {"loop", "sleep", "returned"}
              /\ \A i \in 1..Len(calls) : calls[i].key = DEFAULT_API_KEY
              /\ rpc = "returned" => Len(calls) >= 1 /\ ret.shape # "None"
              /\ ret # Fallback(analysis_type, "no_api_key")

\* an invocation for a kind without a key of its own that called the remote
\* service with the default key and returned its answer
C8_Witness ==
    /\ rpc = "returned"
    /\ GEMINI_APIS[analysis_type] = ""
    /\ calls = <<[key |-> "key_default", did |-> Answers(ObjectOk)]>>
    /\ ret.shape = "json"

\* the error texts that name a quota failure: "429", or "quota" in any case
QuotaMessages == {MsgHttp429, MsgQuotaCap, MsgQUOTA, MsgQuotaLow}

\* the remote call failed with a quota error, raised or returned by the provider
QuotaFailure(b) ==
    \/ b.raises /\ b.msg \in QuotaMessages
    \/ ~b.raises /\ \E m \in QuotaMessages : b.text = ObjectWithError(m)

\* C9: a call that fails with a quota error is the last call; the invocation
\* has then returned the QUOTA_EXCEEDED placeholder, and it has slept only
\* between the calls before: after a first call of this sort there is 1 call
\* and no sleep.
C9_QuotaStopsRetries ==
    \A i \in 1..Len(calls) :
        QuotaFailure(calls[i].did) =>
            /\ i = Len(calls)
            /\ rpc = "returned"
            /\ ret = Fallback(analysis_type, "quota")
            /\ Len(sleeps) = i - 1

\* a quota error, in capitals, raised by the provider on the first call
C9_Witness ==
    /\ rpc = "returned"
    /\ calls = <<[key |-> api_key, did |-> Raises(MsgQUOTA)]>>
    /\ sleeps = <<>>

\* the remote call failed with an error that is no quota error: raised or
\* returned by the provider, or a text that cannot be parsed
NonQuotaFailure(b) ==
    \/ b.raises /\ b.msg \notin QuotaMessages
    \/ ~b.raises /\ \E m \in ProviderMessages \ QuotaMessages : b.text = ObjectWithError(m)
    \/ ~b.raises /\ b.text \in {<<Tok("prose")>>, <<Tok("}"), Tok("prose"), Tok("{")>>}

\* C10: an invocation never makes more than max_retries remote calls, and
\* one that has returned after calls that all failed with a non-quota error
\* has made exactly max_retries calls and returned the API_FAILED placeholder.
C10_RetryCeiling ==
    /\ Len(calls) <= max_retries
    /\ (/\ rpc = "returned"
        /\ calls # <<>>
        /\ \A i \in 1..Len(calls) : NonQuotaFailure(calls[i].did)) =>
          /\ Len(calls) = max_retries
          /\ ret = Fallback(analysis_type, "technical")

\* an invocation that returned after a raised error and an unparseable text
C10_Witness ==
    /\ rpc = "returned"
    /\ Len(calls) = 2
    /\ calls[1].did = Raises(MsgTimeout)
    /\ calls[2].did = Answers(<<Tok("prose")>>)
    /\ sleeps = <<retry_delay>>

(***************************************************************************)
(* Properties of analyze_with_retry, continued (SpecRetry).                *)
(***************************************************************************)
\* the remote call answered a text that parses, as a whole or by its braces,
\* to a JSON object without an "error" member
ParsesToObjectNoError(b) ==
    /\ ~b.raises
    /\ call_gemini_api(b).type = "dict"
    /\ ~HasError(call_gemini_api(b))

\* C11: a call whose response parses to a JSON object without an "error"
\* member (the empty object included) is the last call, the invocation has
\* then returned exactly that object, and a parsed value the invocation
\* returns is always a JSON object.
C11_ObjectIsSuccess ==
    /\ \A i \in 1..Len(calls) :
          ParsesToObjectNoError(calls[i].did) =>
              /\ i = Len(calls)
              /\ rpc = "returned"
              /\ ret = call_gemini_api(calls[i].did)
    /\ (rpc = "returned" /\ ret.shape = "json") => ret.type = "dict"

(***************************************************************************)
(* Properties of the job machine, continued (Spec).                        *)
(***************************************************************************)
\* the values a job's progress takes, from creation on
ProgressSequence == <<0, 10, 20, 30, 44, 58, 72, 86, 100>>

\* C12: a step that changes a job's progress moves it to the next value of
\* 0, 10, 20, 30, 44, 58, 72, 86, 100; the count of a completion raises it by
\* exactly 14, whatever the completed task produced; a run that ended with
\* status done left it at 100.
C12_ProgressSequence ==
    /\ [][\A j \in DOMAIN jobs :
            /\ jobs'[j].progress # jobs[j].progress =>
                  \E i \in 1..(Len(ProgressSequence) - 1) :
                      /\ jobs[j].progress = ProgressSequence[i]
                      /\ jobs'[j].progress = ProgressSequence[i + 1]
            /\ CountAndSetProgress(j) => jobs'[j].progress = jobs[j].progress + 14]_vars
    /\ [](\A j \in DOMAIN jobs :
            /\ pc[j] = "L183" => jobs[j].progress = ProgressSequence[4 + completed[j]]
            /\ (pc[j] = "end" /\ jobs[j].status = "done") => jobs[j].progress = 100)

\* the first completion counted was the fault of the task submitted last
C12_Witness ==
    \E j \in DOMAIN jobs :
        /\ pc[j] = "L183"
        /\ jobs[j].progress = 44
        /\ jobs[j].results["performance"] = AnalysisFailed("MemoryError")
        /\ \A k \in Kinds \ {"performance"} : jobs[j].results[k] = PyNone

\* C13: create-job with no key of any kind and no default key is rejected:
\* the answer is an error without a job id, the registry is left as it was
\* and no run is scheduled.
C13_NoCredentialRejected ==
    [][(/\ summarize_repo
        /\ DEFAULT_API_KEY = ""
        /\ \A k \in Kinds : GEMINI_APIS[k] = "") =>
          /\ reply'.code = 400
          /\ "job_id" \notin DOMAIN reply'
          /\ jobs' = jobs
          /\ pc' = pc]_vars

\* a create-job call refused for want of a credential
C13_Witness ==
    /\ reply = HTTPException("summarize_repo", 400, "API keys not configured")
    /\ DEFAULT_API_KEY = ""
    /\ \A k \in Kinds : GEMINI_APIS[k] = ""
    /\ DOMAIN jobs = {}

\* the message the step raised with has reached the job's record
FailedAs(j, msg, progress) ==
    /\ jobs[j].status = "error"
    /\ jobs[j].error = PyStr(msg)
    /\ jobs[j].progress = progress

\* C14: a run in which clone_repo or parse_repo raised never launches a task
\* and never writes a result slot or the progress again (10 after clone_repo,
\* 20 after parse_repo); it ends with status error and the raised message in
\* the error field.
C14_CloneOrParseFailure ==
    /\ [](\A j \in DOMAIN jobs :
            exc[j] # "" =>
                /\ \A k \in Kinds : futures[j][k] = NoFuture /\ jobs[j].results[k] = PyNone
                /\ jobs[j].progress = IF exc[j] \in CloneErrors THEN 10 ELSE 20
                /\ jobs[j].status \in {IF exc[j] \in CloneErrors THEN "cloning" ELSE "parsing",
                                        "error"}
                /\ pc[j] = "end" => FailedAs(j, exc[j], jobs[j].progress))
    /\ \A j \in JobIds :
          (exc[j] # "") ~> (pc[j] = "end" /\ jobs[j].status = "error")

\* a run that ended after parse_repo raised
C14_Witness ==
    \E j \in DOMAIN jobs :
        /\ pc[j] = "end"
        /\ exc[j] \in ParseErrors
        /\ FailedAs(j, "parse failed", 20)
        /\ \A k \in Kinds : futures[j][k].st = "none"

\* C15: in a done job every slot holds a success payload or a placeholder,
\* and the slot of a task that raised holds the API_FAILED placeholder of its
\* kind.
C15_FaultStoredAsFallback ==
    \A j \in DOMAIN jobs :
        jobs[j].status = "done" =>
            \A k \in Kinds :
                /\ jobs[j].results[k].shape \in {"json", "fallback"}
                /\ futures[j][k].raised => jobs[j].results[k] = Fallback(k, "technical")

\* C16: get-status and get-result leave the registry as it was, and no step
\* changes what get-status or get-result answers for a job whose status is
\* done or error.
C16_ReadsIdempotent ==
    [][/\ \A j \in JobIds, q \in QueryKinds :
            (summary_status(j) \/ get_summary(j, q)) => jobs' = jobs
       /\ \A j \in DOMAIN jobs :
            jobs[j].status \in Terminal =>
                /\ summary_status_response(j)' = summary_status_response(j)
                /\ \A q \in QueryKinds :
                      get_summary_response(j, q)' = get_summary_response(j, q)]_vars

\* C17: a create-job call that succeeds answers with status queued and an
\* identifier the registry did not hold; the registry then holds under it
\* the record of a queued job (progress 0, five absent slots, no error), and
\* every record it held before is as it was.
C17_CreateInsertsFreshJob ==
    [][(summarize_repo /\ reply'.code = 200) =>
          /\ reply'.status = "queued"
          /\ reply'.job_id \notin DOMAIN jobs
          /\ DOMAIN jobs' = DOMAIN jobs \cup {reply'.job_id}
          /\ jobs'[reply'.job_id] =
                [status |-> "queued", progress |-> 0,
                 results |-> [k \in Kinds |-> PyNone], error |-> PyNone]
          /\ \A j \in DOMAIN jobs : jobs'[j] = jobs[j]]_vars

\* a job created while the registry holds a job that has failed
C17_Witness ==
    /\ reply.op = "summarize_repo"
    /\ reply.code = 200
    /\ Cardinality(DOMAIN jobs) = 2
    /\ \E j \in DOMAIN jobs \ {reply.job_id} :
          jobs[j].status = "error" /\ jobs[j].error = PyStr("clone failed")

\* C18: in every state the status and the progress of a job agree: queued
\* with 0, cloning with 10, parsing with 20, analyzing with one of 30, 44,
\* 58, 72, 86, 100.
C18_StatusAndProgressAgree ==
    \A j \in DOMAIN jobs :
        /\ jobs[j].status = "queued" => jobs[j].progress = 0
        /\ jobs[j].status = "cloning" => jobs[j].progress = 10
        /\ jobs[j].status = "parsing" => jobs[j].progress = 20
        /\ jobs[j].status = "analyzing" => jobs[j].progress \in {30, 44, 58, 72, 86, 100}

\* C19: in every state the error field of a job is set if and only if the
\* status of the job is error.
C19_ErrorIffStatusError ==
    \A j \in DOMAIN jobs : (jobs[j].error # PyNone) <=> (jobs[j].status = "error")

\* C20: in every state a job whose status is done has progress 100.  (That
\* progress 100 does not make a job done is what the witness shows.)
C20_DoneImpliesProgress100 ==
    \A j \in DOMAIN jobs : jobs[j].status = "done" => jobs[j].progress = 100

\* the fifth completion has been counted and the status is still analyzing
C20_Witness ==
    \E j \in DOMAIN jobs :
        /\ jobs[j].progress = 100
        /\ jobs[j].status = "analyzing"
        /\ pc[j] = "L201"
        /\ completed[j] = Cardinality(Kinds)

\* what the run stores for the outcome a task ended with
StoredFor(f) ==
    IF f.raised THEN [shape |-> "error_record", message |-> f.msg] ELSE f.value

\* C21: a slot that is not absent holds what the task launched for its own
\* kind ended with, a placeholder in it is the placeholder of that kind, and
\* the record of a run that ended with status done is fixed by the outcomes
\* of the five tasks alone: progress 100 and, slot by slot, what the task of
\* the kind ended with.
C21_OrderIndependentRecord ==
    \A j \in DOMAIN jobs :
        /\ \A k \in Kinds :
              jobs[j].results[k] # PyNone =>
                  /\ futures[j][k].st = "yielded"
                  /\ jobs[j].results[k] = StoredFor(futures[j][k])
                  /\ jobs[j].results[k].shape = "fallback" => jobs[j].results[k].kind = k
        /\ (pc[j] = "end" /\ jobs[j].status = "done") =>
              jobs[j] = [status |-> "done", progress |-> 100, error |-> PyNone,
                         results |-> [k \in Kinds |-> StoredFor(futures[j][k])]]

\* the task submitted last was collected first, while the task submitted
\* first had finished too
C21_Witness ==
    \E j \in DOMAIN jobs :
        /\ pc[j] = "L183"
        /\ completed[j] = 1
        /\ jobs[j].results["performance"] = Fallback("performance", "no_api_key")
        /\ futures[j]["architecture_flow"].st = "done"
        /\ jobs[j].results["architecture_flow"] = PyNone

JobFields == {"status", "progress", "results", "error"}

\* C22: a step of a worker task leaves the registry as it is, and a step that
\* changes the record of a job is a step of the run of that job that writes
\* one field, or one slot of the results, and nothing else.
C22_WritesSerialized ==
    [][/\ \A j \in JobIds, k \in Kinds : Worker(j, k) => jobs' = jobs
       /\ \A j \in DOMAIN jobs :
            jobs'[j] # jobs[j] =>
                /\ Controller(j)
                /\ Cardinality({f \in JobFields : jobs'[j][f] # jobs[j][f]}) = 1
                /\ Cardinality({k \in Kinds : jobs'[j].results[k] # jobs[j].results[k]}) <= 1]_vars

\* the run writes a slot while two other tasks of the job are still running
C22_Witness ==
    \E j \in DOMAIN jobs :
        /\ pc[j] = "L188"
        /\ Cardinality({k \in Kinds : futures[j][k].st = "running"}) >= 2
        /\ Cardinality({k \in Kinds : jobs[j].results[k] # PyNone}) = 1

\* C23: a step changes a slot only from absent, and only while the status of
\* the job is analyzing, before and after; a task is launched for a kind only
\* once, and from the first collection on, one task has been launched for
\* each of the five kinds.
C23_SlotWrittenOnce ==
    /\ [][\A j \in DOMAIN jobs : \A k \in Kinds :
            /\ jobs'[j].results[k] # jobs[j].results[k] =>
                  /\ jobs[j].results[k] = PyNone
                  /\ jobs[j].status = "analyzing"
                  /\ jobs'[j].status = "analyzing"
            /\ futures'[j][k].st = "running" => futures[j][k].st \in {"none", "running"}
            /\ futures[j][k].st # "none" => futures'[j][k].st # "none"]_vars
    /\ [](\A j \in DOMAIN jobs :
            /\ pc[j] \in {"L183", "L188", "L201", "L202"} =>
                  \A k \in Kinds : futures[j][k].st # "none"
            /\ jobs[j].status # "analyzing" /\ jobs[j].status # "done" =>
                  \A k \in Kinds : jobs[j].results[k] = PyNone)

\* a run that has ended, with the quota placeholder in one of its slots
C23_Witness ==
    \E j \in DOMAIN jobs :
        /\ pc[j] = "end"
        /\ jobs[j].status = "done"
        /\ jobs[j].results["mind_map"] = Fallback("mind_map", "quota")
        /\ jobs[j].results["security"].shape = "json"

\* C24: the delays of an invocation are retry_delay * 1, retry_delay * 2, ...,
\* one after each attempt that another attempt follows and none else: none
\* before the first attempt, none once the invocation has returned after its
\* last attempt (a success, a quota failure or the last failure allowed), and
\* after a delay the loop goes on to another attempt.
C24_BackoffBetweenAttempts ==
    /\ \A i \in 1..Len(sleeps) : sleeps[i] = retry_delay * i
    /\ calls = <<>> => sleeps = <<>>
    /\ calls # <<>> => Len(sleeps) \in {Len(calls) - 1, Len(calls)}
    /\ (calls # <<>> /\ Len(sleeps) = Len(calls)) => (rpc = "loop" /\ LoopContinues(attempt))
    /\ (calls # <<>> /\ rpc = "loop" /\ LoopContinues(attempt)) => Len(sleeps) = Len(calls)
    /\ rpc = "sleep" => ~QuotaFailure(calls[Len(calls)].did) /\ ret = PyNone

\* an invocation that slept once, between an empty object and a good answer
C24_Witness ==
    /\ rpc = "returned"
    /\ Len(calls) = 2
    /\ calls[1].did = Answers(<<Tok("{"), Tok("}")>>)
    /\ calls[2].did = Answers(ObjectOk)
    /\ sleeps = <<retry_delay>>
    /\ ret.shape = "json"

C27_GetResultByKind ==
    [][\A j \in DOMAIN jobs, q \in QueryKinds :
          (get_summary(j, q) /\ jobs[j].status = "done") =>
              /\ q \in Kinds =>
                    /\ reply'.code = 200
                    /\ reply'.summary = jobs[j].results[q]
              /\ (q # "" /\ q \notin Kinds) => reply'.code = 404
              /\ q = "" =>
                    /\ reply'.code = 200
                    /\ DOMAIN reply'.summary = Kinds
                    /\ reply'.summary = jobs[j].results]_vars

\* get-result refused for an unknown kind on a done job
C27_Witness ==
    /\ reply = HTTPException("get_summary", 404, "Analysis type not found")
    /\ \E j \in DOMAIN jobs : jobs[j].status = "done"

\* the first balanced {...} of a text: from its first "{" to the first "}"
\* after it (an object of these texts holds no object)
FirstBalanced(text) ==
    LET opens == {i \in 1..Len(text) : text[i].t = "{"} IN
    IF opens = {} THEN <<>>
    ELSE LET i == CHOOSE x \in opens : \A y \in opens : x <= y
             closes == {j \in (i + 1)..Len(text) : text[j].t = "}"}
         IN  IF closes = {} THEN <<>>
             ELSE SubSeq(text, i, CHOOSE x \in closes : \A y \in closes : x <= y)

\* C28: when the text of the response is not JSON as a whole and its first
\* balanced {...} is a JSON object, _call_gemini_api returns that object.
C28_FirstBalancedObject ==
    calls # <<>> =>
        LET b == calls[Len(calls)].did IN
        (/\ ~b.raises
         /\ ~json_loads(b.text).ok
         /\ json_loads(FirstBalanced(b.text)).ok) =>
            result = json_loads(FirstBalanced(b.text)).value

(***************************************************************************)
(* Properties of the clone cache (SpecClone).                              *)
(***************************************************************************)
\* C26: for the runs that name the same repository, the remote clone is
\* made at most once, the calls of clone_repo that return return the same
\* path, and no run is parsing the directory while the clone of another run
\* into it is under way.
C26_CloneCacheIdempotent ==
    /\ \A r \in RepoNames : cloned[r] <= 1
    /\ \A i \in JobIds, j \in JobIds :
          (crepo[i] = crepo[j] /\ cpc[i] = "parsing" /\ cpc[j] = "parsing") =>
              cret[i] = cret[j]
    /\ \A i \in JobIds :
          cpc[i] = "parsing" => OtherCloners(i) = {}

====
